---- MODULE Spec2Model ----
(***************************************************************************)
(* SprintFit AI (src/app/page.tsx, src/lib/gemini.ts): the hybrid matching *)
(* and batch orchestration engine of the SprintFitAI React component, as a *)
(* state machine.  One action per event handler or per continuation of an  *)
(* async handler between two suspension points (awaits on the network).    *)
(*                                                                         *)
(* Texts are sequences of one-character strings.  Numbers that JavaScript  *)
(* holds as doubles are held exactly, as rationals [num, den]; for the     *)
(* token counts and scores of this model (fewer than 12 description        *)
(* tokens, integer semantic scores) the double arithmetic of the source    *)
(* gives the same roundings as the exact one.                              *)
(***************************************************************************)
EXTENDS Integers, Sequences, FiniteSets

\* ------------------------------------------------------------------ bounds
\* number of files of the pool the user can pick from
NumFiles == 3
\* number of document ids handed out over a behaviour
MaxIds == 3
\* number of semantic scores the remote model chooses from
NumAiScores == 1
\* number of files picked in one upload into a multi-file slot
MaxUpload == 2
\* number of handleFileUpload invocations that are awaiting PDF extraction
MaxUploads == 1
\* length the chat transcript may grow to
MaxChat == 2
\* number of getChatResponse calls in flight
MaxChatCalls == 1
\* SpecChat: chat calls in flight at once, and turns in the transcript
MaxPendingChats == 2
MaxTurns == 4
\* SpecScorer: pieces a candidate text and a description text are made of
MaxResumePieces == 2
MaxJdPieces == 4
\* SpecEdited: edits made to a pair of texts
MaxEdits == 2

\* ------------------------------------------------------------------- texts
\* selectedResultId's null (ids are positive)
Null == 0

UpperCase == <<"A","B","C","D","E","F","G","H","I","J","K","L","M",
               "N","O","P","Q","R","S","T","U","V","W","X","Y","Z">>
LowerCase == <<"a","b","c","d","e","f","g","h","i","j","k","l","m",
               "n","o","p","q","r","s","t","u","v","w","x","y","z">>
Digits == {"0","1","2","3","4","5","6","7","8","9"}

\* \s of the regular expressions and of String.prototype.trim
IsSpace(c) == c \in {" ", "\t", "\n"}

\* \w of the regular expressions: [A-Za-z0-9_]
IsWord(c) ==
  \/ \E i \in DOMAIN UpperCase : UpperCase[i] = c
  \/ \E i \in DOMAIN LowerCase : LowerCase[i] = c
  \/ c \in Digits
  \/ c = "_"

\* A character outside ASCII is written as its code point.  U+0130 is the
\* capital I with a dot above of Turkish ("\u0130stanbul"), U+0307 the
\* combining dot above; neither is matched by \w or by \s.
DottedI == "U+0130"
CombiningDot == "U+0307"

\* String.prototype.toLowerCase on one character, by the Unicode case
\* mappings: a sequence of characters, since the lower case of U+0130 is
\* the two characters i, U+0307
toLowerCase(c) ==
  IF \E i \in DOMAIN UpperCase : UpperCase[i] = c
  THEN <<LowerCase[CHOOSE i \in DOMAIN UpperCase : UpperCase[i] = c]>>
  ELSE IF c = DottedI THEN <<"i", CombiningDot>>
  ELSE <<c>>

\* text.toLowerCase()
RECURSIVE lowerCased(_)
lowerCased(text) ==
  IF text = <<>> THEN <<>> ELSE toLowerCase(Head(text)) \o lowerCased(Tail(text))

RECURSIVE trimStart(_)
trimStart(text) ==
  IF text # <<>> /\ IsSpace(Head(text)) THEN trimStart(Tail(text)) ELSE text

RECURSIVE trimEnd(_)
trimEnd(text) ==
  IF text # <<>> /\ IsSpace(text[Len(text)])
  THEN trimEnd(SubSeq(text, 1, Len(text) - 1))
  ELSE text

\* String.prototype.trim
trim(text) == trimEnd(trimStart(text))

\* text.toLowerCase().replace(/[^\w\s]/g, "")
normalize(text) ==
  SelectSeq(lowerCased(text), LAMBDA c : IsWord(c) \/ IsSpace(c))

\* String.prototype.split(/\s+/): the pieces between maximal whitespace runs,
\* the empty pieces at either end included.  acc holds the finished pieces,
\* cur the piece being read, inRun whether the last character was a space.
RECURSIVE splitWs(_, _, _, _)
splitWs(text, acc, cur, inRun) ==
  IF text = <<>> THEN Append(acc, cur)
  ELSE IF IsSpace(Head(text))
       THEN IF inRun THEN splitWs(Tail(text), acc, cur, TRUE)
            ELSE splitWs(Tail(text), Append(acc, cur), <<>>, TRUE)
       ELSE splitWs(Tail(text), acc, Append(cur, Head(text)), FALSE)

\* const clean = (text) => text.toLowerCase().replace(...).split(/\s+/)
clean(text) == splitWs(normalize(text), <<>>, <<>>, FALSE)

\* new Set(clean(resume.text))
resumeTokens(resumeText) ==
  LET toks == clean(resumeText) IN {toks[i] : i \in DOMAIN toks}

\* clean(jd.text).filter(t => t.length > 3)
jdTokens(jdText) == SelectSeq(clean(jdText), LAMBDA t : Len(t) > 3)

\* a score without the cap at 100
keywordScoreUncapped(resumeText, jdText) ==
  LET jt      == jdTokens(jdText)
      rt      == resumeTokens(resumeText)
      matches == SelectSeq(jt, LAMBDA token : token \in rt)
  IN IF Len(jt) > 0
     THEN [num |-> 150 * Len(matches), den |-> Len(jt)]
     ELSE [num |-> 0, den |-> 1]

\* a score over the distinct description tokens
keywordScoreOfDistinct(resumeText, jdText) ==
  LET jt      == jdTokens(jdText)
      rt      == resumeTokens(resumeText)
      jset    == {jt[i] : i \in DOMAIN jt}
      matches == jset \cap rt
  IN IF Len(jt) > 0
     THEN IF 150 * Cardinality(matches) >= 100 * Cardinality(jset)
          THEN [num |-> 100, den |-> 1]
          ELSE [num |-> 150 * Cardinality(matches), den |-> Cardinality(jset)]
     ELSE [num |-> 0, den |-> 1]

\* keywordScore, exactly: 0 without description tokens, else
\* min(matches.length / jdTokens.length * 100 * 1.5, 100)
keywordScore(resumeText, jdText) ==
  LET jt      == jdTokens(jdText)
      rt      == resumeTokens(resumeText)
      matches == SelectSeq(jt, LAMBDA token : token \in rt)
  IN IF Len(jt) > 0
     THEN IF 150 * Len(matches) >= 100 * Len(jt)
          THEN [num |-> 100, den |-> 1]
          ELSE [num |-> 150 * Len(matches), den |-> Len(jt)]
     ELSE [num |-> 0, den |-> 1]

\* Math.round of the rational num/den (den > 0): floor(x + 1/2)
MathRound(num, den) == (2 * num + den) \div (2 * den)

\* a scorer that combines the lexical score after rounding it, as C1 is
\* worded: Math.round((Math.round(keywordScore) * 0.4) + (aiScore * 0.6))
finalScoreOfRoundedRate(ks, aiScore) ==
  MathRound(4 * MathRound(ks.num, ks.den) + 6 * aiScore, 10)

\* Math.round((keywordScore * 0.4) + (aiScore * 0.6))
finalScore(ks, aiScore) ==
  MathRound(4 * ks.num + 6 * aiScore * ks.den, 10 * ks.den)

\* ------------------------------------------------------------------ inputs
\* the PDF files the user can pick: the file's name, and the text
\* extractTextFromPDF gives (it ends every page with a space)
FileList == <<
  [name |-> "cv.pdf",
   text |-> <<"J","a","v","a"," ","d","e","v"," ">>],
  [name |-> "jd.pdf",
   text |-> <<"j","a","v","a"," ","r","u","s","t"," ","k","u","b","e"," ","n","o","d","e"," ">>],
  [name |-> "jd_copy.pdf",
   text |-> <<" ","j","a","v","a"," ","r","u","s","t"," ","k","u","b","e"," ","n","o","d","e"," ">>],
  [name |-> "cv2.pdf",
   text |-> <<"J","A","V","A",","," ","R","u","s","t","!"," ">>] >>

\* a pick that is no entry of FileList: a PDF whose extraction throws
Unreadable == 0

Files == (1..NumFiles) \cup {Unreadable}

\* A FileData {id, name, text} is held as [id, file]: its name and text are
\* those of the file it was read from
nameOf(d) == FileList[d.file].name

textOf(d) == FileList[d.file].text

\* the values of trim and keywordScore on the texts of the pool, computed once
trimmed == [f \in DOMAIN FileList |-> trim(FileList[f].text)]

keywordScores ==
  [r \in DOMAIN FileList |->
     [j \in DOMAIN FileList |-> keywordScore(FileList[r].text, FileList[j].text)]]

\* what the user can type into the API key field
ApiKeys == {<<>>, <<" ">>, <<"k">>}

\* what the user can type into the chat field
ChatInputs == {<<" ">>, <<"h","i">>}

Modes == {"single", "many-resumes", "many-jds"}

\* the semantic scores the model returns in ai_score_0_to_100
AiScoreList == <<4, 90, 150, -5>>

AiScores == {AiScoreList[i] : i \in 1..NumAiScores}

\* ------------------------------------------------- the Reasoning Client
\* What the remote model does on one generateContent call: the call throws
\* (kind "throw": network, service or credential error), or it returns a
\* text.  A text is its JSON body and whether the body came wrapped in
\* ```json fences.  A body is what JSON.parse makes of it:
\*   "invalid"  no JSON at all           "empty"   the empty text
\*   "null"     the JSON null            "array"   a JSON array
\*   "number"   a bare JSON number       "object"  a JSON object,
\* whose fields are score (t: "number" with value v, "string", "absent"),
\* skills (present or not) and verdict ("" when absent or empty).
NoFields == [score |-> [t |-> "absent", v |-> 0],
             skills |-> [present |-> FALSE, v |-> <<>>],
             verdict |-> ""]

body(kind, fields) == [kind |-> kind, score |-> fields.score,
                       skills |-> fields.skills, verdict |-> fields.verdict]

scored(n) == [score |-> [t |-> "number", v |-> n],
              skills |-> [present |-> TRUE, v |-> <<"gRPC">>],
              verdict |-> "Weak fit."]

unscored(t) == [score |-> [t |-> t, v |-> 0],
                skills |-> [present |-> TRUE, v |-> <<"gRPC">>],
                verdict |-> "Weak fit."]

Bodies ==
  {body(k, NoFields) : k \in {"invalid", "empty", "null", "array", "number", "object"}}
  \cup {body("object", scored(n)) : n \in AiScores}
  \cup {body("object", unscored(t)) : t \in {"string", "absent"}}

AnalysisReplies ==
  {[kind |-> "throw", fenced |-> FALSE, body |-> body("empty", NoFields)]}
  \cup {[kind |-> "text", fenced |-> FALSE, body |-> b] : b \in Bodies}
  \cup {[kind |-> "text", fenced |-> TRUE, body |-> body("object", scored(n))] :
          n \in AiScores}

\* getGeminiAnalysis: null (isNull) when anything inside throws, else the
\* response text without its fences
getGeminiAnalysis(reply) ==
  IF reply.kind = "throw"
  THEN [isNull |-> TRUE, fenced |-> FALSE, body |-> body("empty", NoFields)]
  ELSE [isNull |-> FALSE, fenced |-> FALSE, body |-> reply.body]

\* aiJsonStr?.replace(/```json|```/g, "").trim() || "{}"
cleanJson(aiJsonStr) ==
  IF aiJsonStr.isNull \/ aiJsonStr.body.kind = "empty"
  THEN [fenced |-> FALSE, body |-> body("object", NoFields)]
  ELSE [fenced |-> FALSE, body |-> aiJsonStr.body]

\* JSON.parse throws on a text that is no JSON (a fenced one included)
parseThrows(json) == json.fenced \/ json.body.kind = "invalid"

\* ------------------------------------------------------------ analyzePair
\* the document whose id and name the result carries
\* results named after the description whatever the mode
varyingIsJd(resume, jd, m) == jd

varying(resume, jd, m) == IF m = "many-resumes" THEN resume ELSE jd

\* a comparison of the texts as uploaded: resume.text === jd.text
identicalUntrimmed(resume, jd) == textOf(resume) = textOf(jd)

\* resume.text.trim() === jd.text.trim()
identical(resume, jd) == trimmed[resume.file] = trimmed[jd.file]

identicalResult(resume, jd, m) ==
  [id |-> varying(resume, jd, m).id,
   name |-> nameOf(varying(resume, jd, m)),
   score |-> 0,
   missingSkills |-> <<"Identical Files Detected">>,
   verdict |-> "Error: You likely uploaded the JD in the Resume slot.",
   keywordMatchRate |-> 100,
   aiRating |-> 0]

errorResult(resume, jd, m) ==
  [id |-> varying(resume, jd, m).id,
   name |-> nameOf(varying(resume, jd, m)),
   score |-> 0,
   missingSkills |-> <<"Error">>,
   verdict |-> "Failed to analyze (Check API Key).",
   keywordMatchRate |-> 0,
   aiRating |-> 0]

\* a neutral 50 in place of a missing score
aiScoreOrHalf(aiData) ==
  IF aiData.kind = "object" /\ aiData.score.t = "number" THEN aiData.score.v ELSE 50

\* typeof aiData.ai_score_0_to_100 === 'number' ? aiData.ai_score_0_to_100 : 0
aiScoreOf(aiData) ==
  IF aiData.kind = "object" /\ aiData.score.t = "number" THEN aiData.score.v ELSE 0

scoredResult(resume, jd, m, aiData) ==
  LET ks == keywordScores[resume.file][jd.file]
      aiScore == aiScoreOf(aiData)
  IN [id |-> varying(resume, jd, m).id,
      name |-> nameOf(varying(resume, jd, m)),
      score |-> finalScore(ks, aiScore),
      missingSkills |-> IF aiData.kind = "object" /\ aiData.skills.present
                        THEN aiData.skills.v ELSE <<>>,
      verdict |-> IF aiData.kind = "object" /\ aiData.verdict # ""
                  THEN aiData.verdict ELSE "Analysis failed.",
      keywordMatchRate |-> MathRound(ks.num, ks.den),
      aiRating |-> aiScore]

\* analyzePair from the await on: the try block and its catch.  Reading a
\* property of the parsed null throws a TypeError, caught like a parse error.
analyzeReply(resume, jd, m, reply) ==
  LET json == cleanJson(getGeminiAnalysis(reply))
  IN IF parseThrows(json) \/ json.body.kind = "null"
     THEN errorResult(resume, jd, m)
     ELSE scoredResult(resume, jd, m, json.body)

\* an insertion that puts an element before its equals: a sort that is not
\* stable
RECURSIVE insertBeforeEquals(_, _)
insertBeforeEquals(sorted, r) ==
  IF sorted = <<>> THEN <<r>>
  ELSE IF Head(sorted).score > r.score
       THEN <<Head(sorted)>> \o insertBeforeEquals(Tail(sorted), r)
       ELSE <<r>> \o sorted

\* batchResults.sort((a, b) => b.score - a.score): Array.prototype.sort is
\* stable; an insertion sort that puts each element after its equals
RECURSIVE insertByScore(_, _)
insertByScore(sorted, r) ==
  IF sorted = <<>> THEN <<r>>
  ELSE IF Head(sorted).score >= r.score
       THEN <<Head(sorted)>> \o insertByScore(Tail(sorted), r)
       ELSE <<r>> \o sorted

RECURSIVE sortByScore(_)
sortByScore(batch) ==
  IF batch = <<>> THEN <<>>
  ELSE insertByScore(sortByScore(SubSeq(batch, 1, Len(batch) - 1)), batch[Len(batch)])

\* ------------------------------------------------------------------- state
VARIABLES
  mode,              \* useState<Mode>("single")
  userApiKey,        \* the API key field
  envKey,            \* whether process.env.NEXT_PUBLIC_GEMINI_API_KEY is set
  showApiKeyAlert,   \* the "API Key Required" modal
  resumes,           \* the candidate slot: sequence of FileData
  jds,               \* the description slot: sequence of FileData
  loading,
  results,           \* sequence of AnalysisResult
  selectedResultId,  \* an id or Null
  chatHistory,       \* sequence of ChatMessage
  chatInput,
  nextId,            \* the next fresh FileData id (Math.random never repeats)
  uploads,           \* handleFileUpload invocations awaiting extraction
  run,               \* the runAnalysis invocation: its closure and position
  chatCalls,         \* sendChatMessage invocations awaiting getChatResponse
  lastEvent,         \* history: the event of the last step, where a
                     \* specification records it
  probe,             \* SpecScorer: a candidate text and a description
                     \* text under construction, and their lexical score
  origins            \* history: for each element of results the pair of
                     \* documents it was evaluated from, where a
                     \* specification records it

\* the program's state
state == <<mode, userApiKey, envKey, showApiKeyAlert, resumes, jds, loading,
           results, selectedResultId, chatHistory, chatInput, nextId, uploads,
           run, chatCalls>>

vars == <<state, lastEvent, probe, origins>>

\* two empty texts
NoProbe == [resume |-> <<>>, resumePieces |-> 0, jd |-> <<>>, jdPieces |-> 0,
            edits |-> 0, keywordScore |-> keywordScore(<<>>, <<>>)]

\* no runAnalysis invocation in progress
NoRun == [pc |-> "idle", mode |-> "single", resumes |-> <<>>, jds |-> <<>>,
          k |-> 0, batchResults |-> <<>>]

\* the component after its first render
Mounted ==
  /\ mode = "single"
  /\ userApiKey = <<>>
  /\ envKey \in BOOLEAN
  /\ showApiKeyAlert = FALSE
  /\ resumes = <<>>
  /\ jds = <<>>
  /\ loading = FALSE
  /\ results = <<>>
  /\ selectedResultId = Null
  /\ chatHistory = <<>>
  /\ chatInput = <<>>
  /\ nextId = 1
  /\ uploads = <<>>
  /\ run = NoRun
  /\ chatCalls = <<>>
  /\ lastEvent = "none"

Init == Mounted /\ probe = NoProbe /\ origins = <<>>

\* ------------------------------------------------------------ mode switch
\* a reset that leaves the transcript and the focus to the next run
setModeKeepingChat(m) ==
  /\ mode' = m
  /\ IF m = mode
     THEN UNCHANGED <<resumes, jds, results>>
     ELSE /\ resumes' = <<>>
          /\ jds' = <<>>
          /\ results' = <<>>
  /\ UNCHANGED <<userApiKey, envKey, showApiKeyAlert, loading, chatInput,
                 nextId, uploads, run, chatCalls, chatHistory, selectedResultId>>

\* onClick={() => setMode(m)} and the effect on [mode]: a click on the
\* current mode's button changes no state, so React renders nothing and the
\* effect does not run
setMode(m) ==
  /\ mode' = m
  /\ IF m = mode
     THEN UNCHANGED <<resumes, jds, results, chatHistory, selectedResultId>>
     ELSE /\ resumes' = <<>>
          /\ jds' = <<>>
          /\ results' = <<>>
          /\ chatHistory' = <<>>
          /\ selectedResultId' = Null
  /\ UNCHANGED <<userApiKey, envKey, showApiKeyAlert, loading, chatInput,
                 nextId, uploads, run, chatCalls>>

\* -------------------------------------------------------------- API key
setUserApiKey(key) ==
  /\ key # userApiKey
  /\ userApiKey' = key
  /\ UNCHANGED <<mode, envKey, showApiKeyAlert, resumes, jds, loading, results,
                 selectedResultId, chatHistory, chatInput, nextId, uploads,
                 run, chatCalls>>

\* the modal's backdrop, Cancel and I Understand
dismissApiKeyAlert ==
  /\ showApiKeyAlert
  /\ showApiKeyAlert' = FALSE
  /\ UNCHANGED <<mode, userApiKey, envKey, resumes, jds, loading, results,
                 selectedResultId, chatHistory, chatInput, nextId, uploads,
                 run, chatCalls>>

\* a check that takes a blank key for a key: userApiKey !== "" || ...
hasKeyUntrimmed == userApiKey # <<>> \/ envKey

\* userApiKey.trim() !== "" || !!process.env.NEXT_PUBLIC_GEMINI_API_KEY
hasKey == trim(userApiKey) # <<>> \/ envKey

\* ---------------------------------------------------------------- upload
\* the file input's multiple attribute
multiple(type) ==
  \/ type = "resume" /\ mode = "many-resumes"
  \/ type = "jd" /\ mode = "many-jds"

\* the loop of handleFileUpload: the files that parse, in order, each with
\* a fresh id counted from id
RECURSIVE newFiles(_, _)
newFiles(files, id) ==
  IF files = <<>> THEN <<>>
  ELSE IF Head(files) # Unreadable
       THEN <<[id |-> id, file |-> Head(files)]>> \o newFiles(Tail(files), id + 1)
       ELSE newFiles(Tail(files), id)

\* handleFileUpload up to its first await: the closure holds type and mode
handleFileUpload(type, files) ==
  /\ Len(files) > 0
  /\ Len(files) = 1 \/ multiple(type)
  /\ Len(uploads) < MaxUploads
  /\ nextId + Len(newFiles(files, nextId)) - 1 <= MaxIds
  /\ uploads' = Append(uploads, [type |-> type, mode |-> mode,
                                 newFiles |-> newFiles(files, nextId)])
  /\ nextId' = nextId + Len(newFiles(files, nextId))
  /\ UNCHANGED <<mode, userApiKey, envKey, showApiKeyAlert, resumes, jds,
                 loading, results, selectedResultId, chatHistory, chatInput,
                 run, chatCalls>>

\* an upload that replaces the slot's documents in every topology
uploadDoneReplacing(i) ==
  LET u == uploads[i] IN
  /\ uploads' = SubSeq(uploads, 1, i - 1) \o SubSeq(uploads, i + 1, Len(uploads))
  /\ IF u.type = "resume"
     THEN resumes' = u.newFiles /\ UNCHANGED jds
     ELSE jds' = u.newFiles /\ UNCHANGED resumes
  /\ UNCHANGED <<mode, userApiKey, envKey, showApiKeyAlert, loading, results,
                 selectedResultId, chatHistory, chatInput, nextId, run,
                 chatCalls>>

\* handleFileUpload after its last await: setResumes / setJds with the
\* closure's mode
uploadDone(i) ==
  LET u == uploads[i] IN
  /\ uploads' = SubSeq(uploads, 1, i - 1) \o SubSeq(uploads, i + 1, Len(uploads))
  /\ IF u.type = "resume"
     THEN /\ resumes' = IF u.mode = "single" \/ u.mode = "many-jds"
                        THEN u.newFiles ELSE resumes \o u.newFiles
          /\ UNCHANGED jds
     ELSE /\ jds' = IF u.mode = "single" \/ u.mode = "many-resumes"
                    THEN u.newFiles ELSE jds \o u.newFiles
          /\ UNCHANGED resumes
  /\ UNCHANGED <<mode, userApiKey, envKey, showApiKeyAlert, loading, results,
                 selectedResultId, chatHistory, chatInput, nextId, run,
                 chatCalls>>

\* ----------------------------------------------------------- runAnalysis
\* the pairs of a run, from its closure
numPairs(r) ==
  IF r.mode = "single" THEN 1
  ELSE IF r.mode = "many-resumes" THEN Len(r.resumes) ELSE Len(r.jds)

pairResume(r, k) == IF r.mode = "many-resumes" THEN r.resumes[k] ELSE r.resumes[1]

pairJd(r, k) == IF r.mode = "many-jds" THEN r.jds[k] ELSE r.jds[1]

\* a run that gives up at a failed pair: the Error sentinel is not pushed
\* and the loop is left
pushOrAbort(r, res) ==
  IF res.missingSkills = <<"Error">>
  THEN [r EXCEPT !.k = numPairs(r) + 1]
  ELSE [r EXCEPT !.batchResults = Append(@, res), !.k = @ + 1]

\* const res = await analyzePair(...); batchResults.push(res); and the loop
\* goes on to the next pair
push(r, res) == [r EXCEPT !.batchResults = Append(@, res), !.k = @ + 1]

\* runAnalysis from pair r.k on, up to its next await on the network or to
\* its end: a pair of identical texts returns at once, with no call
RECURSIVE advance(_)
advance(r) ==
  IF r.k > numPairs(r) THEN [r EXCEPT !.pc = "done"]
  ELSE IF identical(pairResume(r, r.k), pairJd(r, r.k))
       THEN advance(push(r, identicalResult(pairResume(r, r.k),
                                            pairJd(r, r.k), r.mode)))
       ELSE [r EXCEPT !.pc = "await"]

\* a run that puts the focus on the first result evaluated, taken before
\* the sort
settleFocusingFirstEvaluated(r, resultsNow, selectedNow) ==
  /\ IF r.pc = "done"
     THEN /\ run' = NoRun
          /\ results' = sortByScore(r.batchResults)
          /\ selectedResultId' = IF Len(r.batchResults) > 0
                                 THEN r.batchResults[1].id
                                 ELSE selectedNow
          /\ loading' = FALSE
     ELSE /\ run' = r
          /\ results' = resultsNow
          /\ selectedResultId' = selectedNow
          /\ loading' = TRUE

\* a runAnalysis without its finally: loading is left as it is at the end
settleLeavingLoading(r, resultsNow, selectedNow) ==
  /\ IF r.pc = "done"
     THEN /\ run' = NoRun
          /\ results' = sortByScore(r.batchResults)
          /\ selectedResultId' = IF Len(r.batchResults) > 0
                                 THEN sortByScore(r.batchResults)[1].id
                                 ELSE selectedNow
          /\ loading' = TRUE
     ELSE /\ run' = r
          /\ results' = resultsNow
          /\ selectedResultId' = selectedNow
          /\ loading' = TRUE

\* a runAnalysis that shows the results collected so far after every pair
settleShowingProgress(r, resultsNow, selectedNow) ==
  /\ IF r.pc = "done"
     THEN /\ run' = NoRun
          /\ results' = sortByScore(r.batchResults)
          /\ selectedResultId' = IF Len(r.batchResults) > 0
                                 THEN sortByScore(r.batchResults)[1].id
                                 ELSE selectedNow
          /\ loading' = FALSE
     ELSE /\ run' = r
          /\ results' = sortByScore(r.batchResults)
          /\ selectedResultId' = selectedNow
          /\ loading' = TRUE

\* the state runAnalysis leaves when the run r stops at an await or ends:
\* at the end, the sort, setResults, setSelectedResultId and the finally
settle(r, resultsNow, selectedNow) ==
  /\ IF r.pc = "done"
     THEN /\ run' = NoRun
          /\ results' = sortByScore(r.batchResults)
          /\ selectedResultId' = IF Len(r.batchResults) > 0
                                 THEN sortByScore(r.batchResults)[1].id
                                 ELSE selectedNow
          /\ loading' = FALSE
     ELSE /\ run' = r
          /\ results' = resultsNow
          /\ selectedResultId' = selectedNow
          /\ loading' = TRUE

\* a runAnalysis without the check of the slots: setLoading(true) and
\* setResults([]) are done, reading resumes[0] or jds[0] of the empty slot
\* throws into the catch of runAnalysis, and the finally resets loading
runAnalysisUnchecked ==
  IF ~hasKey
  THEN /\ showApiKeyAlert' = TRUE
       /\ UNCHANGED <<mode, userApiKey, envKey, resumes, jds, loading, results,
                      selectedResultId, chatHistory, chatInput, nextId,
                      uploads, run, chatCalls>>
  ELSE IF Len(resumes) = 0 \/ Len(jds) = 0
  THEN /\ results' = <<>>
       /\ loading' = FALSE
       /\ UNCHANGED <<mode, userApiKey, envKey, showApiKeyAlert, resumes, jds,
                      selectedResultId, chatHistory, chatInput, nextId,
                      uploads, run, chatCalls>>
  ELSE /\ settle(advance([pc |-> "start", mode |-> mode, resumes |-> resumes,
                          jds |-> jds, k |-> 1, batchResults |-> <<>>]),
                 <<>>, selectedResultId)
       /\ UNCHANGED <<mode, userApiKey, envKey, showApiKeyAlert, resumes, jds,
                      chatHistory, chatInput, nextId, uploads, chatCalls>>

\* runAnalysis, up to its first await
runAnalysis ==
  IF ~hasKey
  THEN /\ showApiKeyAlert' = TRUE
       /\ UNCHANGED <<mode, userApiKey, envKey, resumes, jds, loading, results,
                      selectedResultId, chatHistory, chatInput, nextId,
                      uploads, run, chatCalls>>
  ELSE IF Len(resumes) = 0 \/ Len(jds) = 0
  THEN UNCHANGED state
  ELSE /\ settle(advance([pc |-> "start", mode |-> mode, resumes |-> resumes,
                          jds |-> jds, k |-> 1, batchResults |-> <<>>]),
                 <<>>, selectedResultId)
       /\ UNCHANGED <<mode, userApiKey, envKey, showApiKeyAlert, resumes, jds,
                      chatHistory, chatInput, nextId, uploads, chatCalls>>

\* a Run Analysis button that stays enabled while a run is loading
clickRunAnalysisWhileLoading ==
  /\ ~(Len(resumes) = 0 \/ Len(jds) = 0)
  /\ runAnalysis

\* the Run Analysis button: disabled={resumes.length === 0 || jds.length === 0 || loading}
clickRunAnalysis ==
  /\ ~(Len(resumes) = 0 \/ Len(jds) = 0 \/ loading)
  /\ runAnalysis

\* runAnalysis called while no run is in progress, whatever the slots hold
\* (the handler's own checks decide, not the button's disabled attribute)
invokeRunAnalysis ==
  /\ run.pc = "idle"
  /\ ~loading
  /\ runAnalysis

\* the await of analyzePair returns for pair run.k: the rest of analyzePair,
\* the push, and runAnalysis up to its next await or its end
analysisReply(reply) ==
  /\ run.pc = "await"
  /\ settle(advance(push(run, analyzeReply(pairResume(run, run.k),
                                            pairJd(run, run.k),
                                            run.mode, reply))),
            results, selectedResultId)
  /\ UNCHANGED <<mode, userApiKey, envKey, showApiKeyAlert, resumes, jds,
                 chatHistory, chatInput, nextId, uploads, chatCalls>>

\* ------------------------------------------------------------ leaderboard
\* a row click that only moves the focus and keeps the transcript
selectResultKeepingChat(i) ==
  /\ mode # "single"
  /\ i \in DOMAIN results
  /\ selectedResultId' = results[i].id
  /\ UNCHANGED <<mode, userApiKey, envKey, showApiKeyAlert, resumes, jds,
                 loading, results, chatHistory, chatInput, nextId, uploads,
                 run, chatCalls>>

\* the onClick of row i; the leaderboard shows when mode !== "single" and
\* results is not empty
selectResult(i) ==
  /\ mode # "single"
  /\ i \in DOMAIN results
  /\ selectedResultId' = results[i].id
  /\ chatHistory' = <<>>
  /\ UNCHANGED <<mode, userApiKey, envKey, showApiKeyAlert, resumes, jds,
                 loading, results, chatInput, nextId, uploads, run, chatCalls>>

\* ------------------------------------------------------------------- chat
\* the first 1000 characters: text.slice(0, 1000)
ChatBudget == 1000

slice(text, n) == SubSeq(text, 1, IF Len(text) < n THEN Len(text) ELSE n)

\* what `${x?.name}` and `${x?.text.slice(0, 1000)}` give when find found nothing
Undefined == <<"u","n","d","e","f","i","n","e","d">>

\* list.find(d => d.id === selectedResultId)
find(list, id) ==
  IF \E i \in DOMAIN list : list[i].id = id
  THEN LET i == CHOOSE j \in DOMAIN list :
                  list[j].id = id /\ \A h \in 1..(j - 1) : list[h].id # id
       IN [found |-> TRUE, name |-> nameOf(list[i]), text |-> textOf(list[i])]
  ELSE [found |-> FALSE, name |-> "undefined", text |-> Undefined]

\* reading resumes[0].text or jds[0].text of an empty slot throws a TypeError
contextThrows ==
  IF mode = "single" THEN Len(resumes) = 0 \/ Len(jds) = 0
  ELSE IF mode = "many-resumes" THEN Len(jds) = 0
  ELSE Len(resumes) = 0

\* the context string, as the texts and names it is built from
context ==
  IF mode = "single"
  THEN [resumeName |-> "", resumeText |-> slice(textOf(resumes[1]), ChatBudget),
        jdName |-> "", jdText |-> slice(textOf(jds[1]), ChatBudget)]
  ELSE IF mode = "many-resumes"
  THEN LET resume == find(resumes, selectedResultId)
       IN [resumeName |-> resume.name,
           resumeText |-> IF resume.found THEN slice(resume.text, ChatBudget)
                          ELSE Undefined,
           jdName |-> "", jdText |-> slice(textOf(jds[1]), ChatBudget)]
  ELSE LET jd == find(jds, selectedResultId)
       IN [resumeName |-> "", resumeText |-> slice(textOf(resumes[1]), ChatBudget),
           jdName |-> jd.name,
           jdText |-> IF jd.found THEN slice(jd.text, ChatBudget) ELSE Undefined]

\* sendChatMessage up to its await, with input the value of chatInput it
\* reads.  A TypeError thrown while the context is built ends the handler.
sendChatMessage(input) ==
  IF ~hasKey
  THEN /\ showApiKeyAlert' = TRUE
       /\ chatInput' = input
       /\ UNCHANGED <<mode, userApiKey, envKey, resumes, jds, loading, results,
                      selectedResultId, chatHistory, nextId, uploads, run,
                      chatCalls>>
  ELSE IF trim(input) = <<>> \/ Len(results) = 0 \/ contextThrows
  THEN /\ chatInput' = input
       /\ UNCHANGED <<mode, userApiKey, envKey, showApiKeyAlert, resumes, jds,
                      loading, results, selectedResultId, chatHistory, nextId,
                      uploads, run, chatCalls>>
  ELSE /\ chatHistory' = Append(chatHistory, [role |-> "user", text |-> input])
       /\ chatInput' = <<>>
       /\ chatCalls' = Append(chatCalls, [history |-> chatHistory,
                                          message |-> input,
                                          context |-> context])
       /\ UNCHANGED <<mode, userApiKey, envKey, showApiKeyAlert, resumes, jds,
                      loading, results, selectedResultId, nextId, uploads, run>>

\* the user types text into the chat field (setChatInput, the field's
\* onChange) and sends it (Enter, or the button); field and button are
\* disabled while results is empty
\* disabled while results is empty; at most calls calls are pending and the
\* transcript grows to at most turns turns
typeAndSendWithin(text, calls, turns) ==
  /\ Len(results) > 0
  /\ Len(chatCalls) < calls
  /\ Len(chatHistory) + Len(chatCalls) + 2 <= turns
  /\ sendChatMessage(text)

typeAndSend(text) == typeAndSendWithin(text, MaxChatCalls, MaxChat)

\* what the remote model does on one chat call (getModel, startChat,
\* sendMessage): something throws, or a text comes back, which may be empty
ChatReplies == {
  [kind |-> "throw", text |-> <<>>],
  [kind |-> "text", text |-> <<"S","u","r","e",".">>],
  [kind |-> "text", text |-> <<>>] }

\* "System error: The Recruiter Agent is currently offline."
Offline ==
  <<"S","y","s","t","e","m"," ","e","r","r","o","r",":"," ","T","h","e"," ","R","e","c","r","u","i","t","e","r"," ","A","g","e","n","t"," ","i","s"," ","c","u","r","r","e","n","t","l","y"," ","o","f","f","l","i","n","e",".">>

\* a client that answers a failure with the empty text
getChatResponseOrEmpty(reply) ==
  IF reply.kind = "throw" THEN <<>> ELSE reply.text

\* getChatResponse: result.response.text(), or the catch block's message
getChatResponse(reply) ==
  IF reply.kind = "throw" THEN Offline ELSE reply.text

\* sendChatMessage after its await: response || "Error."
chatReply(i, reply) ==
  /\ i \in DOMAIN chatCalls
  /\ chatCalls' = SubSeq(chatCalls, 1, i - 1) \o SubSeq(chatCalls, i + 1, Len(chatCalls))
  /\ chatHistory' = Append(chatHistory,
                           [role |-> "model",
                            text |-> IF getChatResponse(reply) # <<>>
                                     THEN getChatResponse(reply)
                                     ELSE <<"E","r","r","o","r",".">>])
  /\ UNCHANGED <<mode, userApiKey, envKey, showApiKeyAlert, resumes, jds,
                 loading, results, selectedResultId, chatInput, nextId,
                 uploads, run>>

\* the sequences of 1..n files of the pool
UploadPicks ==
  UNION {[1..n -> Files] : n \in 1..MaxUpload}

\* ------------------------------------------------------------ next state
\* a deployment with a built-in key: process.env.NEXT_PUBLIC_GEMINI_API_KEY set
InitKeyed == Init /\ envKey = TRUE

\* The batch engine, the leaderboard and the chat of a deployment with a
\* built-in key, the API key field left alone.  Events are not recorded.
Next ==
  \/ \E m \in Modes : setMode(m) /\ UNCHANGED <<lastEvent, probe, origins>>
  \/ \E type \in {"resume", "jd"} : \E files \in UploadPicks :
       handleFileUpload(type, files) /\ UNCHANGED <<lastEvent, probe, origins>>
  \/ \E i \in DOMAIN uploads : uploadDone(i) /\ UNCHANGED <<lastEvent, probe, origins>>
  \/ clickRunAnalysis /\ UNCHANGED <<lastEvent, probe, origins>>
  \/ \E reply \in AnalysisReplies : analysisReply(reply) /\ UNCHANGED <<lastEvent, probe, origins>>
  \/ \E i \in DOMAIN results : selectResult(i) /\ UNCHANGED <<lastEvent, probe, origins>>
  \/ \E text \in ChatInputs : typeAndSend(text) /\ UNCHANGED <<lastEvent, probe, origins>>
  \/ \E i \in DOMAIN chatCalls : \E reply \in ChatReplies :
       chatReply(i, reply) /\ UNCHANGED <<lastEvent, probe, origins>>

Spec == InitKeyed /\ [][Next]_vars

\* the remote call throws, or returns the object asked for, unfenced
PlainReplies ==
  {r \in AnalysisReplies :
     r.kind = "throw" \/ (r.body.kind = "object" /\ r.body.score.t = "number" /\ ~r.fenced)}

\* The same, each step recording its event in lastEvent, the Reasoning
\* Client answering an analysis with one of PlainReplies.
NextTraced ==
  \/ \E m \in Modes : setMode(m) /\ lastEvent' = "setMode" /\ UNCHANGED <<probe, origins>>
  \/ \E type \in {"resume", "jd"} : \E files \in UploadPicks :
       handleFileUpload(type, files) /\ lastEvent' = "handleFileUpload" /\ UNCHANGED <<probe, origins>>
  \/ \E i \in DOMAIN uploads : uploadDone(i) /\ lastEvent' = "uploadDone" /\ UNCHANGED <<probe, origins>>
  \/ clickRunAnalysis /\ lastEvent' = "runAnalysis" /\ UNCHANGED <<probe, origins>>
  \/ \E reply \in PlainReplies : analysisReply(reply) /\ lastEvent' = "analysisReply" /\ UNCHANGED <<probe, origins>>
  \/ \E i \in DOMAIN results : selectResult(i) /\ lastEvent' = "selectResult" /\ UNCHANGED <<probe, origins>>
  \/ \E text \in ChatInputs : typeAndSend(text) /\ lastEvent' = "sendChatMessage" /\ UNCHANGED <<probe, origins>>
  \/ \E i \in DOMAIN chatCalls : \E reply \in ChatReplies :
       chatReply(i, reply) /\ lastEvent' = "chatReply" /\ UNCHANGED <<probe, origins>>

SpecTraced == InitKeyed /\ [][NextTraced]_vars

\* cv.pdf or jd.pdf, one at a time
SinglePicks == {<<1>>, <<2>>}

\* the remote call returns the object asked for, unfenced
ScoredReplies == {r \in PlainReplies : r.kind = "text"}

\* The chat under sends that do not wait for the pending reply: one of two
\* files per upload, the Reasoning Client answering an analysis with one of
\* ScoredReplies, up to MaxPendingChats chat calls in flight.
NextChat ==
  \/ \E m \in Modes : setMode(m) /\ UNCHANGED <<lastEvent, probe, origins>>
  \/ \E type \in {"resume", "jd"} : \E files \in SinglePicks :
       handleFileUpload(type, files) /\ UNCHANGED <<lastEvent, probe, origins>>
  \/ \E i \in DOMAIN uploads : uploadDone(i) /\ UNCHANGED <<lastEvent, probe, origins>>
  \/ clickRunAnalysis /\ UNCHANGED <<lastEvent, probe, origins>>
  \/ \E reply \in ScoredReplies : analysisReply(reply) /\ UNCHANGED <<lastEvent, probe, origins>>
  \/ \E i \in DOMAIN results : selectResult(i) /\ UNCHANGED <<lastEvent, probe, origins>>
  \/ \E text \in ChatInputs :
       typeAndSendWithin(text, MaxPendingChats, MaxTurns) /\ UNCHANGED <<lastEvent, probe, origins>>
  \/ \E i \in DOMAIN chatCalls : \E reply \in ChatReplies :
       chatReply(i, reply) /\ UNCHANGED <<lastEvent, probe, origins>>

SpecChat == InitKeyed /\ [][NextChat]_vars

\* one file at a time, readable or not
KeyPicks == SinglePicks \cup {<<Unreadable>>}

\* The handlers and the API key: a deployment with or without a built-in
\* key, the user editing the key field, runAnalysis and sendChatMessage
\* called in every state; 1v1 mode, one file per upload, each step
\* recording its event.
NextKeys ==
  \/ \E key \in ApiKeys : setUserApiKey(key) /\ lastEvent' = "setUserApiKey" /\ UNCHANGED <<probe, origins>>
  \/ dismissApiKeyAlert /\ lastEvent' = "dismissApiKeyAlert" /\ UNCHANGED <<probe, origins>>
  \/ \E type \in {"resume", "jd"} : \E files \in KeyPicks :
       handleFileUpload(type, files) /\ lastEvent' = "handleFileUpload" /\ UNCHANGED <<probe, origins>>
  \/ \E i \in DOMAIN uploads : uploadDone(i) /\ lastEvent' = "uploadDone" /\ UNCHANGED <<probe, origins>>
  \/ invokeRunAnalysis /\ lastEvent' = "runAnalysis" /\ UNCHANGED <<probe, origins>>
  \/ \E reply \in ScoredReplies : analysisReply(reply) /\ lastEvent' = "analysisReply" /\ UNCHANGED <<probe, origins>>
  \/ \E text \in ChatInputs : typeAndSend(text) /\ lastEvent' = "sendChatMessage" /\ UNCHANGED <<probe, origins>>
  \/ \E i \in DOMAIN chatCalls : \E reply \in ChatReplies :
       chatReply(i, reply) /\ lastEvent' = "chatReply" /\ UNCHANGED <<probe, origins>>

SpecKeys == Init /\ [][NextKeys]_vars

\* every semantic score of the list, in range or not
WideScores == {AiScoreList[i] : i \in DOMAIN AiScoreList}

\* the remote call returns the object asked for, with any of WideScores
WideReplies ==
  {[kind |-> "text", fenced |-> FALSE, body |-> body("object", scored(n))] :
     n \in WideScores}

\* The batch engine alone, the Reasoning Client answering with the object
\* asked for and a semantic score of its choice; no chat, no leaderboard.
NextScores ==
  \/ \E m \in Modes : setMode(m) /\ UNCHANGED <<lastEvent, probe, origins>>
  \/ \E type \in {"resume", "jd"} : \E files \in UploadPicks :
       handleFileUpload(type, files) /\ UNCHANGED <<lastEvent, probe, origins>>
  \/ \E i \in DOMAIN uploads : uploadDone(i) /\ UNCHANGED <<lastEvent, probe, origins>>
  \/ clickRunAnalysis /\ UNCHANGED <<lastEvent, probe, origins>>
  \/ \E reply \in WideReplies : analysisReply(reply) /\ UNCHANGED <<lastEvent, probe, origins>>

SpecScores == InitKeyed /\ [][NextScores]_vars

\* ------------------------------------------------------ the lexical scorer
\* the pieces the texts of SpecScorer are put together from: words of more
\* and of fewer than four characters, in either case, with punctuation,
\* with white space before or after
Pieces == {
  <<"j","a","v","a"," ">>,
  <<" ","R","u","s","t",",">>,
  <<"r","u","s","t"," ">>,
  <<"g","o"," ">> }

\* the candidate text grows by piece p, and the pair is scored
extendResume(p) ==
  /\ probe.resumePieces < MaxResumePieces
  /\ probe' = [probe EXCEPT !.resume = @ \o p, !.resumePieces = @ + 1,
                            !.keywordScore = keywordScore(probe.resume \o p, probe.jd)]
  /\ UNCHANGED <<state, lastEvent, origins>>

\* the description text grows by piece p, and the pair is scored
extendJd(p) ==
  /\ probe.jdPieces < MaxJdPieces
  /\ probe' = [probe EXCEPT !.jd = @ \o p, !.jdPieces = @ + 1,
                            !.keywordScore = keywordScore(probe.resume, probe.jd \o p)]
  /\ UNCHANGED <<state, lastEvent, origins>>

\* The lexical scorer of analyzePair as a function of two texts.
NextScorer ==
  \/ \E p \in Pieces : extendResume(p)
  \/ \E p \in Pieces : extendJd(p)

SpecScorer == InitKeyed /\ [][NextScorer]_vars

\* ------------------------------------------- the scorer under edited texts
\* the characters an edit inserts: a comma and U+0130, neither of them a
\* word character or white space
Marks == {",", DottedI}

\* neither a word character nor white space: what /[^\w\s]/ matches
IsMark(c) == ~IsWord(c) /\ ~IsSpace(c)

\* the ASCII letter c in its other case
swapCase(c) ==
  IF \E i \in DOMAIN UpperCase : UpperCase[i] = c
  THEN LowerCase[CHOOSE i \in DOMAIN UpperCase : UpperCase[i] = c]
  ELSE IF \E i \in DOMAIN LowerCase : LowerCase[i] = c
  THEN UpperCase[CHOOSE i \in DOMAIN LowerCase : LowerCase[i] = c]
  ELSE c

Sides == {"resume", "jd"}

sideText(side) == IF side = "resume" THEN probe.resume ELSE probe.jd

\* the text of side replaced by text, and the pair scored again
rescore(side, text) ==
  /\ probe.edits < MaxEdits
  /\ probe' = IF side = "resume"
              THEN [probe EXCEPT !.resume = text, !.edits = @ + 1,
                                 !.keywordScore = keywordScore(text, probe.jd)]
              ELSE [probe EXCEPT !.jd = text, !.edits = @ + 1,
                                 !.keywordScore = keywordScore(probe.resume, text)]
  /\ UNCHANGED <<state, lastEvent, origins>>

\* the letter at position i of a text changes case
changeCase(side, i) ==
  /\ i \in DOMAIN sideText(side)
  /\ swapCase(sideText(side)[i]) # sideText(side)[i]
  /\ rescore(side, [sideText(side) EXCEPT ![i] = swapCase(@)])

\* the mark c is inserted after position i of a text
insertMark(side, i, c) ==
  /\ i \in 0..Len(sideText(side))
  /\ rescore(side, SubSeq(sideText(side), 1, i) \o <<c>>
                     \o SubSeq(sideText(side), i + 1, Len(sideText(side))))

\* the mark at position i of a text is removed
removeMark(side, i) ==
  /\ i \in DOMAIN sideText(side)
  /\ IsMark(sideText(side)[i])
  /\ rescore(side, SubSeq(sideText(side), 1, i - 1)
                     \o SubSeq(sideText(side), i + 1, Len(sideText(side))))

\* a candidate text of one piece against a description of two
EditedPairs ==
  {[NoProbe EXCEPT !.resume = r, !.resumePieces = 1, !.jd = j \o k, !.jdPieces = 2,
                   !.keywordScore = keywordScore(r, j \o k)] :
     r \in Pieces, j \in {<<"j","a","v","a"," ">>}, k \in Pieces}

InitEdited == Mounted /\ envKey = TRUE /\ probe \in EditedPairs /\ origins = <<>>

\* The lexical scorer of analyzePair on pairs of texts that differ by an
\* edit: a letter's case, or a mark more or less.
NextEdited ==
  \/ \E side \in Sides : \E i \in DOMAIN sideText(side) : changeCase(side, i)
  \/ \E side \in Sides : \E i \in 0..Len(sideText(side)) : \E c \in Marks :
       insertMark(side, i, c)
  \/ \E side \in Sides : \E i \in DOMAIN sideText(side) : removeMark(side, i)

SpecEdited == InitEdited /\ [][NextEdited]_vars

\* ------------------------------------------------------- runs that finish
\* the awaited call of a run fails or returns the object asked for
callReturns ==
  \E reply \in PlainReplies :
    analysisReply(reply) /\ UNCHANGED <<lastEvent, probe, origins>>

\* cv.pdf, jd.pdf, or the two together
RunPicks == SinglePicks \cup {<<1, 2>>}

\* The batch engine alone, one or two readable files per upload, the
\* Reasoning Client failing or answering with the object asked for; no
\* chat, no leaderboard.
NextRuns ==
  \/ \E m \in Modes : setMode(m) /\ UNCHANGED <<lastEvent, probe, origins>>
  \/ \E type \in {"resume", "jd"} : \E files \in RunPicks :
       handleFileUpload(type, files) /\ UNCHANGED <<lastEvent, probe, origins>>
  \/ \E i \in DOMAIN uploads : uploadDone(i) /\ UNCHANGED <<lastEvent, probe, origins>>
  \/ clickRunAnalysis /\ UNCHANGED <<lastEvent, probe, origins>>
  \/ callReturns

\* Every call to the Reasoning Client eventually returns or fails: the
\* continuation of a run that awaits one is eventually run.
SpecRuns == InitKeyed /\ [][NextRuns]_vars /\ WF_vars(callReturns)

\* =================================================================== claims
Range(seq) == {seq[i] : i \in DOMAIN seq}

\* the closure of the runAnalysis invocation that a step continues or starts
StepClosure ==
  IF run.pc = "await" THEN run
  ELSE [NoRun EXCEPT !.mode = mode, !.resumes = resumes, !.jds = jds]

\* a step of runAnalysis: the continuation after an await, or the click
RunStep ==
  \/ run.pc = "await" /\ run' # run
  \/ run.pc = "idle" /\ clickRunAnalysis /\ hasKey

\* a step in which runAnalysis reaches its end
RunEnds == RunStep /\ run'.pc = "idle"

\* the results the run holds after a step of it, in the order it holds them
Produced == IF run'.pc = "await" THEN run'.batchResults ELSE results'

\* the pair of closure c whose result carries id
pairOf(c, id) ==
  CHOOSE k \in 1..numPairs(c) :
    (IF c.mode = "many-resumes" THEN c.resumes[k].id ELSE pairJd(c, k).id) = id

IsIdenticalSentinel(r) ==
  r.score = 0 /\ r.missingSkills = <<"Identical Files Detected">>

IsErrorSentinel(r) ==
  /\ r.score = 0
  /\ r.missingSkills = <<"Error">>
  /\ r.verdict = "Failed to analyze (Check API Key)."

NonSentinel(r) ==
  r.missingSkills # <<"Identical Files Detected">> /\ r.missingSkills # <<"Error">>

\* ---- C1
\* C1 as stated: in every state, every result that is no sentinel (in
\* results, or collected by the run in progress) has
\* score = round(keywordMatchRate * 0.4 + aiRating * 0.6), with the stored,
\* already rounded keywordMatchRate.
C1_ScoreFromStoredRates ==
  \A r \in Range(results) \cup Range(run.batchResults) :
    NonSentinel(r) =>
      r.score = (4 * r.keywordMatchRate + 6 * r.aiRating + 5) \div 10

\* C1, amended: after every step of a run, every result the run holds that
\* is no sentinel has score = round(ks * 0.4 + aiRating * 0.6), where ks is
\* the unrounded lexical score of the result's pair, and its keywordMatchRate
\* is round(ks).
C1_ScoreFromUnroundedLexical ==
  [][RunStep =>
       \A r \in Range(Produced) :
         NonSentinel(r) =>
           LET c  == StepClosure
               k  == pairOf(c, r.id)
               ks == keywordScores[pairResume(c, k).file][pairJd(c, k).file]
           IN /\ 10 * ks.den * r.score <= 4 * ks.num + 6 * r.aiRating * ks.den + 5 * ks.den
              /\ 4 * ks.num + 6 * r.aiRating * ks.den + 5 * ks.den < 10 * ks.den * (r.score + 1)
              /\ 2 * ks.den * r.keywordMatchRate <= 2 * ks.num + ks.den
              /\ 2 * ks.num + ks.den < 2 * ks.den * (r.keywordMatchRate + 1)]_vars

\* a run has ended whose result has a lexical score that is no integer
\* (cv.pdf against jd.pdf: 1 of 4 tokens, 37.5, stored as 38) and a
\* semantic score of 4: its score is 17, not round(38 * 0.4 + 4 * 0.6) = 18
C1_Witness ==
  \E i \in DOMAIN results :
    /\ NonSentinel(results[i])
    /\ results[i].keywordMatchRate = 38
    /\ results[i].aiRating = 4
    /\ results[i].score = 17

\* ---- C2
\* the id of the varying document of pair k of closure c
variedId(c, k) ==
  IF c.mode = "many-resumes" THEN c.resumes[k].id
  ELSE IF c.mode = "many-jds" THEN c.jds[k].id ELSE c.jds[1].id

\* C2: a run over N pairs ends with exactly N results in results, one for
\* each pair, whatever the Reasoning Client answered for each of them; while
\* it is in progress it holds one result for each pair evaluated so far, and
\* no step of it drops a result it held.
C2_OneResultPerPair ==
  [][RunStep =>
       LET c == StepClosure IN
       /\ run'.pc = "await" => Len(run'.batchResults) = run'.k - 1
       /\ run'.pc = "idle" =>
            /\ Len(results') = numPairs(c)
            /\ \A k \in 1..numPairs(c) :
                 Cardinality({i \in DOMAIN results' : results'[i].id = variedId(c, k)}) = 1
       /\ \A i \in DOMAIN run.batchResults :
            \E j \in DOMAIN Produced : Produced[j] = run.batchResults[i]]_vars

\* a batch of two pairs has ended with two results: the Error sentinel of a
\* pair whose response was unusable, and the scored result of the other pair
C2_Witness ==
  /\ run.pc = "idle"
  /\ mode # "single"
  /\ Len(results) = 2
  /\ \E i, j \in DOMAIN results :
       /\ IsErrorSentinel(results[i])
       /\ NonSentinel(results[j]) /\ results[j].aiRating > 0

\* ---- C3
\* the result the run holds, after a step of it, for pair k of its closure c
resultOfPair(c, k) ==
  Produced[CHOOSE j \in DOMAIN Produced : Produced[j].id = variedId(c, k)]

\* C3 as stated: when the Reasoning Client call of a pair fails, the result
\* of that pair is the Error sentinel: score 0, missingSkills = <<"Error">>
\* and the check-credentials verdict.
C3_FailedCallGivesErrorSentinel ==
  [][\A reply \in AnalysisReplies :
       reply.kind = "throw" /\ analysisReply(reply) =>
         IsErrorSentinel(resultOfPair(run, run.k))]_vars

\* ---- C4
\* C4: when a run ends, results is in descending order of score, and
\* results of equal score are in the order in which the run evaluated their
\* pairs.
C4_SortedStable ==
  [][RunEnds =>
       \A i, j \in DOMAIN results' :
         i < j =>
           \/ results'[i].score > results'[j].score
           \/ /\ results'[i].score = results'[j].score
              /\ pairOf(StepClosure, results'[i].id) < pairOf(StepClosure, results'[j].id)]_vars

\* a batch over two candidates has ended in a tie at 0: the Error sentinel
\* of the first candidate is above the identical-files sentinel of the second
C4_Witness ==
  /\ run.pc = "idle"
  /\ mode = "many-resumes"
  /\ Len(results) = 2 /\ Len(resumes) = 2
  /\ results[1].score = results[2].score
  /\ IsErrorSentinel(results[1]) /\ results[1].id = resumes[1].id
  /\ IsIdenticalSentinel(results[2]) /\ results[2].id = resumes[2].id

\* ---- C5
\* the documents of the varying side of closure c
variedDocs(c) == IF c.mode = "many-resumes" THEN Range(c.resumes) ELSE Range(c.jds)

\* C5: in many-resumes and many-jds mode every result a run holds, sentinel
\* or not, has the id and the name of one document of the varying side (a
\* candidate, respectively a description), and when the run ends the ids of
\* results are exactly the ids of the varying side's documents.
C5_ResultNamesVaryingDocument ==
  [][RunStep /\ StepClosure.mode # "single" =>
       /\ \A r \in Range(Produced) :
            \E d \in variedDocs(StepClosure) :
              r.id = d.id /\ r.name = FileList[d.file].name
       /\ run'.pc = "idle" =>
            {r.id : r \in Range(results')} = {d.id : d \in variedDocs(StepClosure)}]_vars

\* a many-jds batch of one candidate against two descriptions has ended:
\* one result is the identical-files sentinel, and the two results carry the
\* ids and names of the two descriptions, not those of the candidate
C5_Witness ==
  /\ run.pc = "idle"
  /\ mode = "many-jds"
  /\ Len(jds) = 2 /\ Len(resumes) = 1 /\ Len(results) = 2
  /\ \E i \in DOMAIN results : IsIdenticalSentinel(results[i])
  /\ {[id |-> r.id, name |-> r.name] : r \in Range(results)}
       = {[id |-> d.id, name |-> FileList[d.file].name] : d \in Range(jds)}
  /\ \A r \in Range(results) : r.name # FileList[resumes[1].file].name

\* ---- C6
\* the pairs a run has evaluated after a step of it
evaluated(c) == IF run'.pc = "await" THEN run'.k - 1 ELSE numPairs(c)

\* C6: a pair whose texts are equal after trimming gets the identical-files
\* sentinel (score 0, missingSkills = <<"Identical Files Detected">>),
\* whatever the Reasoning Client answers, and a run never awaits a Reasoning
\* Client call for such a pair.
C6_IdenticalShortCircuit ==
  [][RunStep =>
       LET c == StepClosure IN
       /\ \A k \in 1..evaluated(c) :
            trimmed[pairResume(c, k).file] = trimmed[pairJd(c, k).file]
              => IsIdenticalSentinel(resultOfPair(c, k))
       /\ run'.pc = "await" =>
            trimmed[pairResume(c, run'.k).file] # trimmed[pairJd(c, run'.k).file]]_vars

\* a 1v1 run has ended with the identical-files sentinel for two files whose
\* texts differ only in surrounding white space
C6_Witness ==
  /\ run.pc = "idle"
  /\ mode = "single"
  /\ Len(resumes) = 1 /\ Len(jds) = 1 /\ Len(results) = 1
  /\ textOf(resumes[1]) # textOf(jds[1])
  /\ trim(textOf(resumes[1])) = trim(textOf(jds[1]))
  /\ results[1].id = jds[1].id
  /\ IsIdenticalSentinel(results[1])

\* ---- C7
\* C7 as stated: in every state selectedResultId is the id of a member of
\* results when results is not empty, and null when results is empty.
C7_SelectedIsMember ==
  IF results = <<>>
  THEN selectedResultId = Null
  ELSE \E i \in DOMAIN results : results[i].id = selectedResultId

\* ---- C8
\* C8 as stated: when a run ends and sets results and the focus, the chat
\* transcript is empty afterwards.
C8_RunClearsChat == [][RunEnds => chatHistory' = <<>>]_vars

\* ---- C9
\* C9: a click on row i of the leaderboard leaves the chat transcript empty
\* and selectedResultId equal to the id of result i.
C9_SelectionClearsChat ==
  [][\A i \in DOMAIN results :
       selectResult(i) =>
         chatHistory' = <<>> /\ selectedResultId' = results[i].id]_vars

\* the second row of a leaderboard is in focus and the transcript is empty
\* while the answer to a question about another result is still awaited
C9_Witness ==
  /\ mode # "single"
  /\ Len(results) = 2
  /\ selectedResultId = results[2].id
  /\ selectedResultId # results[1].id
  /\ chatHistory = <<>>
  /\ chatCalls # <<>>

\* ---- C10
AllReset ==
  /\ resumes = <<>>
  /\ jds = <<>>
  /\ results = <<>>
  /\ selectedResultId = Null
  /\ chatHistory = <<>>

\* C10 as stated: after any click on a topology button, both document
\* slots, results, selectedResultId and the chat transcript are empty.
C10_AnySelectionResets == lastEvent = "setMode" => AllReset

\* C10, amended: after a click on a topology button that changes the
\* topology, both document slots, results, selectedResultId and the chat
\* transcript are empty.
C10_ChangeOfTopologyResets ==
  [][lastEvent' = "setMode" /\ mode' # mode => AllReset']_vars

\* the topology has just been changed, everything is reset, and the answer
\* to a question asked under the previous topology is still awaited
C10_Witness ==
  /\ lastEvent = "setMode"
  /\ mode # "single"
  /\ AllReset
  /\ chatCalls # <<>>

\* ---- C11
\* C11 as stated: a run that was started under another topology than the
\* current one (the topology was changed while its calls were in flight)
\* never writes results or selectedResultId.
C11_StaleRunWritesNothing ==
  [][(run.pc = "await" /\ run' # run /\ run.mode # mode)
       => results' = results /\ selectedResultId' = selectedResultId]_vars

\* ---- C12
\* C12 as stated: at most one chat call is in flight at any time.
C12_OneChatCallInFlight == Len(chatCalls) <= 1

\* ---- C13
\* C13: runAnalysis called while the candidate slot or the description slot
\* is empty starts no run and issues no call (run stays as it is), and
\* leaves loading, results and selectedResultId unchanged.
C13_EmptySlotStartsNoRun ==
  [][(lastEvent' = "runAnalysis" /\ (Len(resumes) = 0 \/ Len(jds) = 0))
       => /\ run' = run
          /\ loading' = loading
          /\ results' = results
          /\ selectedResultId' = selectedResultId]_vars

\* runAnalysis has just been called with an empty description slot (a
\* re-upload that failed to parse emptied it) while the results of an
\* earlier run are shown: they are still there and nothing is loading
C13_Witness ==
  /\ lastEvent = "runAnalysis"
  /\ Len(resumes) > 0 /\ Len(jds) = 0
  /\ Len(results) > 0
  /\ selectedResultId = results[1].id
  /\ ~loading
  /\ run.pc = "idle"

\* ---- C14
\* the key field is blank and there is no built-in key
NoCredential ==
  /\ \A i \in DOMAIN userApiKey : userApiKey[i] = " "
  /\ ~envKey

\* C14: runAnalysis or sendChatMessage called without a credential raises
\* the API-key alert, issues no analysis call and no chat call, and leaves
\* results, selectedResultId and the chat transcript unchanged.
C14_NoCredentialNoCall ==
  [][(lastEvent' \in {"runAnalysis", "sendChatMessage"} /\ NoCredential)
       => /\ showApiKeyAlert'
          /\ run' = run
          /\ chatCalls' = chatCalls
          /\ results' = results
          /\ selectedResultId' = selectedResultId
          /\ chatHistory' = chatHistory]_vars

\* a chat message has just been sent with a blank key in the field and no
\* built-in key, after a run made under a key: the alert is up, no call is
\* pending and the transcript is still empty
C14_Witness ==
  /\ lastEvent = "sendChatMessage"
  /\ ~envKey
  /\ userApiKey = <<" ">>
  /\ showApiKeyAlert
  /\ Len(results) > 0
  /\ chatHistory = <<>>
  /\ chatCalls = <<>>

\* ---- C15
\* the chat call fails
ChatFailure == [kind |-> "throw", text |-> <<>>]

\* C15: a send that issues a chat call appends the user's turn, and when the
\* call fails the handler appends one assistant turn holding the fixed
\* message "System error: The Recruiter Agent is currently offline."; so a
\* transcript that nothing else touched while the call was pending ends with
\* the user's turn followed by that assistant turn.
C15_FailedChatKeepsUserTurn ==
  [][/\ Len(chatCalls') > Len(chatCalls) =>
          LET call == chatCalls'[Len(chatCalls')]
          IN chatHistory' = Append(chatHistory, [role |-> "user", text |-> call.message])
     /\ \A i \in DOMAIN chatCalls :
          chatReply(i, ChatFailure) =>
            LET userTurn  == [role |-> "user", text |-> chatCalls[i].message]
                errorTurn == [role |-> "model", text |-> Offline]
            IN /\ chatHistory' = Append(chatHistory, errorTurn)
               /\ chatHistory = Append(chatCalls[i].history, userTurn) =>
                    chatHistory' = chatCalls[i].history \o <<userTurn, errorTurn>>]_vars

\* the chat call for "hi" has failed: the transcript is the user's turn
\* followed by the assistant turn with the fixed message
C15_Witness ==
  /\ chatCalls = <<>>
  /\ Len(chatHistory) = 2
  /\ chatHistory[1] = [role |-> "user", text |-> <<"h", "i">>]
  /\ chatHistory[2].role = "model"
  /\ chatHistory[2].text[1] = "S" /\ Len(chatHistory[2].text) = 55

\* ---- C16
\* a response text that is not the JSON of an object with the expected
\* fields: no JSON, the empty text, null, an array, a bare number, {}
Malformed(b) ==
  \/ b.kind \in {"invalid", "empty", "null", "array", "number"}
  \/ b = body("object", NoFields)

\* C16 as stated: when the call returns a response that does not parse into
\* the expected shape, the result of the pair has score 0 and
\* missingSkills = <<"Error">>.
C16_MalformedGivesErrorSentinel ==
  [][\A reply \in AnalysisReplies :
       (reply.kind = "text" /\ Malformed(reply.body) /\ analysisReply(reply)) =>
         LET r == resultOfPair(run, run.k)
         IN r.score = 0 /\ r.missingSkills = <<"Error">>]_vars

\* ---- C17
\* C17: when the response is an object whose ai_score_0_to_100 is missing or
\* is no number, the result of the pair is no sentinel, has aiRating 0 and
\* score round(ks * 0.4) for the lexical score ks of the pair, and has the
\* missing skills and the verdict of the response where it gives them.
C17_MissingScoreCountsZero ==
  [][\A reply \in AnalysisReplies :
       (/\ reply.kind = "text"
        /\ reply.body.kind = "object"
        /\ reply.body.score.t # "number"
        /\ analysisReply(reply)) =>
         LET r  == resultOfPair(run, run.k)
             ks == keywordScores[pairResume(run, run.k).file][pairJd(run, run.k).file]
         IN /\ NonSentinel(r)
            /\ r.aiRating = 0
            /\ 10 * ks.den * r.score <= 4 * ks.num + 5 * ks.den
            /\ 4 * ks.num + 5 * ks.den < 10 * ks.den * (r.score + 1)
            /\ reply.body.skills.present => r.missingSkills = reply.body.skills.v
            /\ reply.body.verdict # "" => r.verdict = reply.body.verdict]_vars

\* a run has ended with a result scored from the lexical score alone (37.5
\* of cv.pdf against jd.pdf, score 15) that carries the missing skills and
\* the verdict of a response without a numeric score
C17_Witness ==
  \E i \in DOMAIN results :
    /\ results[i].aiRating = 0
    /\ results[i].keywordMatchRate = 38
    /\ results[i].score = 15
    /\ results[i].missingSkills = <<"gRPC">>
    /\ results[i].verdict = "Weak fit."

\* ---- C18
\* C18 as stated: every result in results has score, keywordMatchRate and
\* aiRating in 0..100.
C18_RatesInRange ==
  \A r \in Range(results) :
    /\ r.score \in 0..100
    /\ r.keywordMatchRate \in 0..100
    /\ r.aiRating \in 0..100

\* ---- C19
\* C19: the lexical score of every pair of texts is a number from 0 to 100
\* (a fraction num/den with den > 0 and 0 <= num <= 100 * den).
C19_LexicalScoreInRange ==
  /\ probe.keywordScore.den > 0
  /\ 0 <= probe.keywordScore.num
  /\ probe.keywordScore.num <= 100 * probe.keywordScore.den

\* the description tokens of more than 3 characters, duplicates kept
RefD == SelectSeq(clean(probe.jd), LAMBDA t : Len(t) > 3)

\* the set of candidate tokens
RefC == Range(clean(probe.resume))

\* the occurrences in the description of tokens of the candidate
RefMatches == Cardinality({i \in DOMAIN RefD : RefD[i] \in RefC})

\* 3 of 4 description tokens are in the candidate text: the boost would
\* give 112.5, and the score is 100
C19_Witness ==
  /\ Len(RefD) = 4
  /\ RefMatches = 3
  /\ probe.keywordScore = [num |-> 100, den |-> 1]

\* ---- C20
\* C20: the lexical score is 0 when the description has no token of more
\* than 3 characters, and otherwise min(m / |D| * 150, 100), where m counts
\* the occurrences in D of tokens of the candidate, a repeated token once
\* per occurrence.
C20_LexicalScoreIsReference ==
  LET ks == probe.keywordScore IN
  IF Len(RefD) = 0
  THEN ks.num = 0
  ELSE IF 150 * RefMatches >= 100 * Len(RefD)
       THEN ks.num = 100 * ks.den
       ELSE ks.num * Len(RefD) = 150 * RefMatches * ks.den

\* a token occurs twice in the description and is in the candidate text,
\* a third description token is not: 2 of 3 occurrences match and the score
\* is 2/3 * 150 = 100 (1 of 2 distinct tokens would give 75)
C20_Witness ==
  /\ Len(RefD) = 3
  /\ RefD[1] = RefD[2] /\ RefD[1] \in RefC
  /\ RefD[3] \notin RefC
  /\ RefMatches = 2
  /\ probe.keywordScore = [num |-> 100, den |-> 1]

\* ---- C21
\* C21 as stated: a change of the case of a letter, or the insertion or the
\* removal of a character that is neither a word character nor white space,
\* in the candidate text or in the description text, leaves the lexical
\* score as it was.
C21_ScoreInvariantUnderNormalization ==
  [][probe'.edits > probe.edits =>
       probe'.keywordScore = probe.keywordScore]_vars

\* ---- C22
\* C22: when a run ends with a result sequence that is not empty,
\* selectedResultId is, right after that step, the id of the first element
\* of results.
C22_FocusOnTopResult ==
  [][RunEnds /\ Len(results') > 0 => selectedResultId' = results'[1].id]_vars

\* a batch over two candidates has ended and the sort has put the second
\* candidate first: the focus is on it, not on the first one evaluated
C22_Witness ==
  /\ run.pc = "idle" /\ ~loading
  /\ mode = "many-resumes"
  /\ Len(resumes) = 2 /\ Len(results) = 2
  /\ results[1].id = resumes[2].id
  /\ results[1].score > results[2].score
  /\ selectedResultId = results[1].id

\* ---- C23
\* the transcript as the send of chat call i left it
asSent(i) ==
  Append(chatCalls[i].history, [role |-> "user", text |-> chatCalls[i].message])

\* C23 as stated: a chat reply that arrives after the transcript was
\* cleared by a change of focus or of topology (the transcript is no longer
\* as the send left it) is not appended to the transcript.
C23_LateReplyDropped ==
  [][\A i \in DOMAIN chatCalls : \A reply \in ChatReplies :
       (chatReply(i, reply) /\ chatHistory # asSent(i)) =>
         chatHistory' = chatHistory]_vars

\* ---- C24
\* C24 as stated: sendChatMessage called with an input that is not blank,
\* with a credential and with results not empty appends the user's turn to
\* the transcript and requests a reply, whatever the document slots hold.
C24_UserTurnAlwaysAppended ==
  [][\A text \in ChatInputs :
       (sendChatMessage(text) /\ trim(text) # <<>> /\ hasKey /\ Len(results) > 0) =>
         /\ chatHistory' = Append(chatHistory, [role |-> "user", text |-> text])
         /\ Len(chatCalls') = Len(chatCalls) + 1]_vars

\* ---- C25
\* the pairs of documents the results of the run that ends in this step
\* were evaluated from
originsOfRun ==
  [k \in 1..numPairs(StepClosure) |->
     [id |-> variedId(StepClosure, k),
      resume |-> pairResume(StepClosure, k),
      jd |-> pairJd(StepClosure, k)]]

\* origins follows results: set when a run ends, emptied with results
recordOrigins ==
  origins' = IF RunEnds THEN originsOfRun
             ELSE IF results' = <<>> THEN <<>> ELSE origins

\* The batch engine, the leaderboard and the chat, one of two files per
\* upload, the Reasoning Client answering an analysis with one of
\* ScoredReplies; each step records the origins of results.
NextContext ==
  \/ \E m \in Modes : setMode(m) /\ recordOrigins /\ UNCHANGED <<lastEvent, probe>>
  \/ \E type \in {"resume", "jd"} : \E files \in SinglePicks :
       handleFileUpload(type, files) /\ recordOrigins /\ UNCHANGED <<lastEvent, probe>>
  \/ \E i \in DOMAIN uploads : uploadDone(i) /\ recordOrigins /\ UNCHANGED <<lastEvent, probe>>
  \/ clickRunAnalysis /\ recordOrigins /\ UNCHANGED <<lastEvent, probe>>
  \/ \E reply \in ScoredReplies :
       analysisReply(reply) /\ recordOrigins /\ UNCHANGED <<lastEvent, probe>>
  \/ \E i \in DOMAIN results : selectResult(i) /\ recordOrigins /\ UNCHANGED <<lastEvent, probe>>
  \/ \E text \in ChatInputs : typeAndSend(text) /\ recordOrigins /\ UNCHANGED <<lastEvent, probe>>
  \/ \E i \in DOMAIN chatCalls : \E reply \in ChatReplies :
       chatReply(i, reply) /\ recordOrigins /\ UNCHANGED <<lastEvent, probe>>

SpecContext == InitKeyed /\ [][NextContext]_vars

\* C25 as stated: the context sent with a chat request holds the texts (up
\* to ChatBudget characters each) of the candidate and of the description
\* that the focused result was evaluated from.
C25_ContextFromFocusedPair ==
  [][Len(chatCalls') > Len(chatCalls) =>
       \E k \in DOMAIN origins :
         /\ origins[k].id = selectedResultId
         /\ chatCalls'[Len(chatCalls')].context.resumeText
              = slice(textOf(origins[k].resume), ChatBudget)
         /\ chatCalls'[Len(chatCalls')].context.jdText
              = slice(textOf(origins[k].jd), ChatBudget)]_vars

\* ---- C26
\* C26: at most one analysis call is in flight.  No run is started while a
\* run is in progress or loading is true; and while a run awaits the call
\* for its pair k, loading is true and the run holds the results of its
\* pairs 1..k-1, whose calls have all returned.
C26_OneAnalysisCallInFlight ==
  [][/\ lastEvent' = "runAnalysis" => run.pc = "idle" /\ ~loading
     /\ run'.pc = "await" =>
          loading' /\ Len(run'.batchResults) = run'.k - 1]_vars

\* the call for the second pair of a batch is in flight, the result of the
\* first pair is collected, and both slots are filled: loading alone keeps
\* the Run Analysis button disabled
C26_Witness ==
  /\ run.pc = "await"
  /\ run.k = 2 /\ Len(run.batchResults) = 1
  /\ loading
  /\ Len(resumes) > 0 /\ Len(jds) > 0
  /\ lastEvent = "analysisReply"

\* ---- C27
\* the slot an upload writes
slotOf(type) == IF type = "resume" THEN resumes ELSE jds

\* the same after the step
slotAfter(type) == IF type = "resume" THEN resumes' ELSE jds'

\* C27 as stated: when an upload into a slot completes, the slot holds
\* exactly the newly uploaded documents, in every topology and for both
\* slots.
C27_UploadReplacesSlot ==
  [][\A i \in DOMAIN uploads :
       uploadDone(i) => slotAfter(uploads[i].type) = uploads[i].newFiles]_vars

\* the slot of type type holds several documents in topology m
multiSlot(type, m) ==
  \/ type = "resume" /\ m = "many-resumes"
  \/ type = "jd" /\ m = "many-jds"

\* C27, amended: when an upload completes, the slot it was made into holds
\* exactly the newly uploaded documents if the slot is a single-document
\* slot of the topology the upload was started in; if it is that topology's
\* multi-document slot, the slot holds the documents it held before,
\* followed by the new ones.  The other slot is left as it was.
C27_UploadReplacesOrAppends ==
  [][\A i \in DOMAIN uploads :
       uploadDone(i) =>
         LET u == uploads[i] IN
         /\ slotAfter(u.type) = IF multiSlot(u.type, u.mode)
                             THEN slotOf(u.type) \o u.newFiles
                             ELSE u.newFiles
         /\ slotAfter(IF u.type = "resume" THEN "jd" ELSE "resume")
              = slotOf(IF u.type = "resume" THEN "jd" ELSE "resume")]_vars

\* many-resumes: a candidate was uploaded, then the description, then a
\* second candidate in an upload of its own; the candidate slot holds both
C27_Witness ==
  /\ mode = "many-resumes"
  /\ uploads = <<>>
  /\ Len(resumes) = 2 /\ resumes[1].id = 1 /\ resumes[2].id = 3
  /\ Len(jds) = 1 /\ jds[1].id = 2

\* ---- C28
\* C28: provided every call to the Reasoning Client eventually returns or
\* fails, loading, once set by a run, is eventually reset to false: every
\* run that has started eventually finishes.
C28_RunEventuallyFinishes == loading ~> ~loading

\* a batch of two pairs has finished after the topology was changed while it
\* was running and after a call of it failed: nothing is loading, both slots
\* are empty, and results holds the two results of the stale run
C28_Witness ==
  /\ ~loading
  /\ run.pc = "idle"
  /\ resumes = <<>> /\ jds = <<>>
  /\ Len(results) = 2
  /\ \E i \in DOMAIN results : results[i].verdict = "Analysis failed."

\* ---- C29
\* C29: after every step results is empty while loading is true; and a step
\* that changes results either empties it or is the end of a run, which
\* puts into results one result for each pair of that run and nothing else.
C29_NoPartialBatchVisible ==
  [][/\ loading' => results' = <<>>
     /\ (results' # results /\ results' # <<>>) =>
          /\ RunEnds
          /\ Len(results') = numPairs(StepClosure)
          /\ \A k \in 1..numPairs(StepClosure) :
               \E i \in DOMAIN results' : results'[i].id = variedId(StepClosure, k)]_vars

\* a batch of two pairs is in progress: the result of its first pair is
\* collected, the call for the second is awaited, and results is empty
C29_Witness ==
  /\ loading
  /\ run.pc = "await"
  /\ run.k = 2 /\ Len(run.batchResults) = 1
  /\ numPairs(run) = 2
  /\ results = <<>>
====
